---- MODULE Spec2Model ----
(***************************************************************************)
(* Model of openfoodfacts-mcp: the log_food resolution cascade             *)
(* (server.py), the remote client (client.py), the value types (models.py) *)
(* and the SQLite food log with its daily/weekly aggregation (storage.py). *)
(*                                                                         *)
(* Strings are sequences of code points, so that str.lower, str.isdigit,   *)
(* len and SQLite's byte-wise ORDER BY are computed, not assumed.          *)
(* Floating-point values are modelled as exact numbers: a per-100g value   *)
(* is an integer, an entry total is an integer count of 1/100 units, and   *)
(* a quotient is kept as a fraction [num, den].  Dates are day ordinals    *)
(* (date.isoformat is injective and the queries compare it for equality).  *)
(***************************************************************************)
EXTENDS Integers, Sequences, FiniteSets, Bags, TLC

VARIABLES
    food_log,         \* rows of table food_log (storage.py SCHEMA)
    sqlite_sequence,  \* AUTOINCREMENT high-water mark of food_log
    custom_products,  \* rows of the local custom-product catalogue
    today,            \* date.today(), as a day ordinal
    issued,           \* history: every id storage.log_food has returned
    last_op,          \* the handler that ran last, with its arguments
    calls,            \* the calls that handler made, in order, with outcomes
    ret,              \* what that handler returned (or that it raised)
    conns             \* the storage calls in flight (SpecConcurrent)

vars == <<food_log, sqlite_sequence, custom_products, today, issued,
          last_op, calls, ret, conns>>

-----------------------------------------------------------------------------
(* Strings *)

breakfast == <<98, 114, 101, 97, 107, 102, 97, 115, 116>>
lunch == <<108, 117, 110, 99, 104>>
dinner == <<100, 105, 110, 110, 101, 114>>
snack == <<115, 110, 97, 99, 107>>

\* "Lunch", "SNACK", "brunch", "" : meal types as a caller may type them
Lunch_Title == <<76, 117, 110, 99, 104>>
SNACK_UPPER == <<83, 78, 65, 67, 75>>
brunch == <<98, 114, 117, 110, 99, 104>>
EmptyStr == <<>>

\* identifiers: "0123", "0590000" (7 digits), "05900000" (8 digits),
\* "mleko", "salad", "1"
id_0123 == <<48, 49, 50, 51>>
id_7digits == <<48, 53, 57, 48, 48, 48, 48>>
id_8digits == <<48, 53, 57, 48, 48, 48, 48, 48>>
mleko == <<109, 108, 101, 107, 111>>
salad == <<115, 97, 108, 97, 100>>
id_1 == <<49>>

\* str.lower() on ASCII: 'A'..'Z' -> 'a'..'z', every other code unchanged
lower(s) == [i \in 1..Len(s) |-> IF s[i] \in 65..90 THEN s[i] + 32 ELSE s[i]]

\* str.isdigit(): non-empty and every character a digit ('0'..'9')
isdigit(s) == Len(s) > 0 /\ \A i \in 1..Len(s) : s[i] \in 48..57

\* str(n) for 0 <= n <= 99
str(n) == IF n < 10 THEN <<48 + n>> ELSE <<48 + (n \div 10), 48 + (n % 10)>>

\* SQLite BINARY collation (memcmp, then length): a sorts before b
StrLess(a, b) ==
    \E i \in 1..(Len(a) + 1) :
        /\ i <= Len(b)
        /\ \A j \in 1..(i - 1) : a[j] = b[j]
        /\ (i = Len(a) + 1 \/ a[i] < b[i])

-----------------------------------------------------------------------------
(* models.py *)

None == [tag |-> "None"]

NutrimentAliases ==
    {"energy-kcal_100g", "proteins_100g", "fat_100g", "carbohydrates_100g",
     "sugars_100g", "fiber_100g"}

\* Nutriments.model_validate(raw): every field defaults to 0 when its alias
\* is absent from the payload
Nutriments(raw) ==
    LET get(k) == IF k \in DOMAIN raw THEN raw[k] ELSE 0 IN
    [calories_kcal |-> get("energy-kcal_100g"),
     proteins_g    |-> get("proteins_100g"),
     fats_g        |-> get("fat_100g"),
     carbs_g       |-> get("carbohydrates_100g"),
     sugars_g      |-> get("sugars_100g"),
     fiber_g       |-> get("fiber_100g")]

\* Product.from_api(item), for an item that validates
from_api(item) ==
    [tag        |-> "Product",
     barcode    |-> item.code,
     name       |-> IF item.product_name_pl # EmptyStr
                    THEN item.product_name_pl ELSE item.product_name,
     nutriments |-> Nutriments(item.nutriments)]

\* CustomProduct.to_product(): no barcode, nutrient fields copied 1:1
to_product(c) ==
    [tag        |-> "Product",
     barcode    |-> EmptyStr,
     name       |-> c.name,
     nutriments |-> [calories_kcal |-> c.calories_kcal_100g,
                     proteins_g    |-> c.proteins_g_100g,
                     fats_g        |-> c.fats_g_100g,
                     carbs_g       |-> c.carbs_g_100g,
                     sugars_g      |-> c.sugars_g_100g,
                     fiber_g       |-> c.fiber_g_100g]]

-----------------------------------------------------------------------------
(* client.py: the two remote operations, as functions of the HTTP exchange *)

Raised == [tag |-> "Raised"]
Returned(v) == [tag |-> "Returned", value |-> v]

\* resp.raise_for_status(): raises for every status that is not 2xx
raise_for_status(resp) == ~(resp.status_code \in 200..299)

\* A lookup that answers None whenever the exchange did not give a product.
get_product_lenient(resp) ==
    IF resp.kind = "timeout" THEN Returned(None)
    ELSE IF raise_for_status(resp) THEN Returned(None)
    ELSE IF resp.status = 0 THEN Returned(None)
    ELSE IF ~resp.product.valid THEN Returned(None)
    ELSE Returned(from_api(resp.product))

\* client.get_product(barcode), given the exchange's outcome
get_product(resp) ==
    IF resp.kind = "timeout" THEN Raised
    ELSE IF resp.status_code = 404 THEN Returned(None)
    ELSE IF raise_for_status(resp) THEN Raised
    ELSE IF resp.status = 0 THEN Returned(None)
    ELSE IF ~resp.product.valid THEN Raised
    ELSE Returned(from_api(resp.product))

RECURSIVE ParseItems(_)
\* the loop over data["products"]: an item that fails to validate is skipped
ParseItems(items) ==
    IF items = <<>> THEN <<>>
    ELSE IF Head(items).valid
         THEN <<from_api(Head(items))>> \o ParseItems(Tail(items))
         ELSE ParseItems(Tail(items))

\* client.search_products(query, page_size=...), given the exchange's outcome
search_products(resp) ==
    IF resp.kind = "timeout" THEN Raised
    ELSE IF raise_for_status(resp) THEN Raised
    ELSE Returned(ParseItems(resp.products))

-----------------------------------------------------------------------------
(* storage.py *)

NULL == <<>>          \* a NULL column; a non-NULL text column is <<text>>

SetMax(S) == CHOOSE m \in S : \A x \in S : x <= m

\* A rowid chosen without AUTOINCREMENT: one more than the largest rowid
\* now in the table, so the id of a deleted last row is handed out again.
RowidWithoutAutoincrement(table, seq) ==
    SetMax({0} \cup {r.id : r \in table}) + 1

\* INTEGER PRIMARY KEY AUTOINCREMENT: one more than the largest rowid the
\* table has ever held, which sqlite_sequence remembers
AutoincrementRowid(table, seq) ==
    SetMax({seq} \cup {r.id : r \in table}) + 1

\* ORDER BY meal_type, id : r1 comes before r2
OrderByMealTypeId(r1, r2) ==
    \/ StrLess(r1.meal_type, r2.meal_type)
    \/ (r1.meal_type = r2.meal_type /\ r1.id < r2.id)

RECURSIVE Sorted(_)
\* the rows in ORDER BY order
Sorted(rows) ==
    IF rows = {} THEN <<>>
    ELSE LET first == CHOOSE r \in rows :
                          \A o \in rows \ {r} : OrderByMealTypeId(r, o)
         IN  <<first>> \o Sorted(rows \ {first})

\* NULL in one of the REAL nutrient columns, which the schema leaves
\* nullable: a number no stored total takes
SqlNull == -1000000

\* a row value passed on as it is stored, NULL included
KeepNull(v) == v

\* row[...] or 0 : NULL (None) and 0.0 both give 0
OrZero(v) == IF v = SqlNull \/ v = 0 THEN 0 ELSE v

\* FoodEntry(id=row["id"], ..., fiber_g=row["fiber_g"] or 0)
RowToEntry(row) ==
    [row EXCEPT !.calories_kcal = OrZero(@), !.proteins_g = OrZero(@),
                !.fats_g = OrZero(@), !.carbs_g = OrZero(@),
                !.sugars_g = OrZero(@), !.fiber_g = OrZero(@)]

\* SELECT * FROM food_log WHERE date = ? ORDER BY meal_type, id
SelectByDate(table, target_date) ==
    Sorted({r \in table : r.date = target_date})

RECURSIVE Entries(_)
\* [FoodEntry(...) for row in rows]
Entries(rows) ==
    IF rows = <<>> THEN <<>>
    ELSE <<RowToEntry(Head(rows))>> \o Entries(Tail(rows))

\* storage.get_entries_for_date(target_date)
get_entries_for_date(target_date) ==
    Entries(SelectByDate(food_log, target_date))

RECURSIVE SeqSum(_)
\* sum(...) over a list of numbers
SeqSum(s) == IF s = <<>> THEN 0 ELSE Head(s) + SeqSum(Tail(s))

\* storage.get_daily_summary(target_date)
get_daily_summary(target_date) ==
    LET entries == get_entries_for_date(target_date) IN
    [date           |-> target_date,
     total_calories |-> SeqSum([i \in 1..Len(entries) |-> entries[i].calories_kcal]),
     total_proteins |-> SeqSum([i \in 1..Len(entries) |-> entries[i].proteins_g]),
     total_fats     |-> SeqSum([i \in 1..Len(entries) |-> entries[i].fats_g]),
     total_carbs    |-> SeqSum([i \in 1..Len(entries) |-> entries[i].carbs_g]),
     total_sugars   |-> SeqSum([i \in 1..Len(entries) |-> entries[i].sugars_g]),
     total_fiber    |-> SeqSum([i \in 1..Len(entries) |-> entries[i].fiber_g]),
     entries        |-> entries]

(* get_weekly_summary: quotients are kept as fractions num/den, den > 0 *)

TrendThresholdKcal == 50
UnitsPerOne == 100     \* an entry total counts 1/100 units (amount_g / 100.0)

RECURSIVE FnSum(_, _)
\* sum(f[i] for i in S)
FnSum(f, S) ==
    IF S = {} THEN 0
    ELSE LET x == CHOOSE y \in S : TRUE IN f[x] + FnSum(f, S \ {x})

\* [d for d in days[idx] if d.entries]
ActiveDays(days, idx) == {i \in idx : days[i].entries # <<>>}

\* The total divided by the length of the window.
MeanOverWindow(total, n) == [num |-> total, den |-> 7]

\* total / n
Mean(total, n) == [num |-> total, den |-> n]

\* sum(d.<field> for d in the days S) / len(S)
Average(days, S, field) ==
    Mean(FnSum([i \in DOMAIN days |-> days[i][field]], S), Cardinality(S))

\* a - b
FracSub(a, b) ==
    [num |-> a.num * b.den - b.num * a.den, den |-> a.den * b.den]

Abs(x) == IF x < 0 THEN -x ELSE x

\* abs(diff) <= 50
IsStableInclusive(diff) ==
    Abs(diff.num) <= TrendThresholdKcal * UnitsPerOne * diff.den

\* abs(diff) < 50
IsStable(diff) ==
    Abs(diff.num) < TrendThresholdKcal * UnitsPerOne * diff.den

NoTrend == [kind |-> "omitted"]

\* the trend line: last 3 days against the previous 4
Trend(days) ==
    LET recent  == ActiveDays(days, 0..2)
        earlier == ActiveDays(days, 3..6)
    IN  IF recent # {} /\ earlier # {}
        THEN LET diff == FracSub(Average(days, recent, "total_calories"),
                                 Average(days, earlier, "total_calories"))
             IN  [kind |-> IF IsStable(diff) THEN "stabilne"
                           ELSE IF diff.num > 0 THEN "wzrost" ELSE "spadek",
                  diff |-> diff]
        ELSE NoTrend

\* storage.get_weekly_summary()
get_weekly_summary ==
    LET days   == [i \in 0..6 |-> get_daily_summary(today - i)]
        active == ActiveDays(days, 0..6)
    IN  IF active = {} THEN [tag |-> "NoData"]
        ELSE [tag       |-> "Weekly",
              n         |-> Cardinality(active),
              avg_cal   |-> Average(days, active, "total_calories"),
              avg_prot  |-> Average(days, active, "total_proteins"),
              avg_fat   |-> Average(days, active, "total_fats"),
              avg_carb  |-> Average(days, active, "total_carbs"),
              avg_sugar |-> Average(days, active, "total_sugars"),
              avg_fiber |-> Average(days, active, "total_fiber"),
              trend     |-> Trend(days)]

\* storage.find_custom_product(identifier): the rows matching by exact name
\* or by id; no match gives None
find_custom_product(identifier) ==
    LET hits == {c \in custom_products :
                    c.name = identifier \/ str(c.id) = identifier}
    IN  IF hits = {} THEN {None} ELSE hits

-----------------------------------------------------------------------------
(* server.py *)

valid_meals == {breakfast, lunch, dinner, snack}

\* The meal type taken as typed.
NotLowered(meal_type) == meal_type

\* meal_type = meal_type.lower()
NormalizeMeal(meal_type) == lower(meal_type)

\* The barcode lookup tried whatever the local lookup gave.
TryBarcodeAlways(product, barcode_or_name) ==
    isdigit(barcode_or_name) /\ Len(barcode_or_name) >= 8

\* The barcode lookup tried only for more than 8 digits.
TryBarcodeLonger(product, barcode_or_name) ==
    product = None /\ isdigit(barcode_or_name) /\ Len(barcode_or_name) > 8

\* if not product and barcode_or_name.isdigit() and len(barcode_or_name) >= 8
TryBarcode(product, barcode_or_name) ==
    product = None /\ isdigit(barcode_or_name) /\ Len(barcode_or_name) >= 8

Call(fn, arg, out) == [fn |-> fn, arg |-> arg, out |-> out]

\* steps 1-3 of log_food: the calls made (each remote call with the exchange
\* that answered it), and the product, None, or Raised
Resolve(barcode_or_name, custom, bar_resp, search_resp) ==
    LET c1 == [fn |-> "find_custom_product", arg |-> barcode_or_name,
               found |-> custom,
               out |-> IF custom = None THEN "none" ELSE "custom"]
        p1 == IF custom # None THEN to_product(custom) ELSE None
        try2 == TryBarcode(p1, barcode_or_name)
        r2 == get_product(bar_resp)
        c2(out) == [fn |-> "get_product", arg |-> barcode_or_name,
                    resp |-> bar_resp, out |-> out]
    IN  IF try2 /\ r2 = Raised
        THEN [calls  |-> <<c1, c2("raised")>>, result |-> Raised]
        ELSE
        LET p2 == IF try2 THEN r2.value ELSE p1
            k2 == IF try2
                  THEN <<c1, c2(IF p2 = None THEN "none" ELSE "product")>>
                  ELSE <<c1>>
            r3 == search_products(search_resp)
            c3(out) == [fn |-> "search_products", arg |-> barcode_or_name,
                        page_size |-> 1, resp |-> search_resp, out |-> out]
        IN  IF p2 # None THEN [calls |-> k2, result |-> Returned(p2)]
            ELSE IF r3 = Raised
            THEN [calls |-> k2 \o <<c3("raised")>>, result |-> Raised]
            ELSE IF r3.value # <<>>
            THEN [calls  |-> k2 \o <<c3("results")>>,
                  result |-> Returned(r3.value[1])]
            ELSE [calls |-> k2 \o <<c3("empty")>>, result |-> Returned(None)]

\* A total rounded down to whole units.
ScaledRounded(per_100g, amount_g) ==
    ((per_100g * amount_g) \div UnitsPerOne) * UnitsPerOne

\* per_100g * ratio with ratio = amount_g / 100.0, counted in 1/100 units
Scaled(per_100g, amount_g) == per_100g * amount_g

\* the FoodEntry log_food builds (id is still the default 0)
FoodEntry(product, amount_g, meal_type) ==
    LET n == product.nutriments IN
    [id            |-> 0,
     date          |-> today,
     meal_type     |-> meal_type,
     product_name  |-> product.name,
     barcode       |-> IF product.barcode # EmptyStr
                       THEN <<product.barcode>> ELSE NULL,
     amount_g      |-> amount_g,
     calories_kcal |-> Scaled(n.calories_kcal, amount_g),
     proteins_g    |-> Scaled(n.proteins_g, amount_g),
     fats_g        |-> Scaled(n.fats_g, amount_g),
     carbs_g       |-> Scaled(n.carbs_g, amount_g),
     sugars_g      |-> Scaled(n.sugars_g, amount_g),
     fiber_g       |-> Scaled(n.fiber_g, amount_g)]

StoreUnchanged == UNCHANGED <<food_log, sqlite_sequence, issued>>

\* cursor.lastrowid of the INSERT about to run
lastrowid == AutoincrementRowid(food_log, sqlite_sequence)

\* storage.log_food(entry): INSERT, commit, return cursor.lastrowid
storage_log_food(entry) ==
    /\ food_log' = food_log \cup {[entry EXCEPT !.id = lastrowid]}
    /\ sqlite_sequence' = lastrowid
    /\ issued' = issued \cup {lastrowid}

\* the log_food tool
log_food(barcode_or_name, amount_g, meal_type_arg, bar_resp, search_resp) ==
    LET meal_type == NormalizeMeal(meal_type_arg) IN
    /\ last_op' = [op |-> "log_food", barcode_or_name |-> barcode_or_name,
                   amount_g |-> amount_g, meal_type |-> meal_type_arg]
    /\ UNCHANGED <<custom_products, today, conns>>
    /\ IF meal_type \notin valid_meals
       THEN /\ calls' = <<>>
            /\ ret' = [tag |-> "InvalidMealType"]
            /\ StoreUnchanged
       ELSE \E custom \in find_custom_product(barcode_or_name) :
            LET r == Resolve(barcode_or_name, custom, bar_resp, search_resp) IN
            IF r.result = Raised
            THEN /\ calls' = r.calls
                 /\ ret' = [tag |-> "Raised"]
                 /\ StoreUnchanged
            ELSE IF r.result.value = None
            THEN /\ calls' = r.calls
                 /\ ret' = [tag |-> "NotFound"]
                 /\ StoreUnchanged
            ELSE LET product == r.result.value
                     entry == FoodEntry(product, amount_g, meal_type)
                 IN  /\ storage_log_food(entry)
                     /\ calls' = r.calls \o
                            <<Call("storage.log_food", entry, lastrowid)>>
                     /\ ret' = [tag |-> "Saved", entry_id |-> lastrowid,
                                entry |-> entry, product |-> product]

\* A delete that takes the named row and every later one with it.
DeleteFromId(entry_id) == {r \in food_log : r.id < entry_id}

\* storage.delete_entry(entry_id): DELETE ... WHERE id = ?, rowcount > 0
delete_entry(entry_id) == {r \in food_log : r.id # entry_id}

\* the delete_food_entry tool
delete_food_entry(entry_id) ==
    /\ last_op' = [op |-> "delete_food_entry", entry_id |-> entry_id]
    /\ food_log' = delete_entry(entry_id)
    /\ calls' = <<Call("storage.delete_entry", entry_id,
                       IF food_log' # food_log THEN "true" ELSE "false")>>
    /\ ret' = [tag |-> IF food_log' # food_log THEN "Deleted" ELSE "NoSuchEntry"]
    /\ UNCHANGED <<sqlite_sequence, issued, custom_products, today, conns>>

\* the add_custom_product tool: a new catalogue row with the next id
add_custom_product(name, calories_kcal_100g, proteins_g_100g) ==
    LET id == Cardinality(custom_products) + 1 IN
    /\ last_op' = [op |-> "add_custom_product", name |-> name]
    /\ custom_products' = custom_products \cup
           {[id |-> id, name |-> name,
             calories_kcal_100g |-> calories_kcal_100g,
             proteins_g_100g |-> proteins_g_100g,
             fats_g_100g |-> 0, carbs_g_100g |-> 0,
             sugars_g_100g |-> 0, fiber_g_100g |-> 0]}
    /\ calls' = <<>>
    /\ ret' = [tag |-> "Added", product_id |-> id]
    /\ StoreUnchanged
    /\ UNCHANGED <<today, conns>>

\* a read of one date's entries (storage.get_entries_for_date)
read_entries(target_date) ==
    /\ last_op' = [op |-> "get_entries_for_date", target_date |-> target_date]
    /\ calls' = <<>>
    /\ ret' = [tag |-> "Entries", entries |-> get_entries_for_date(target_date)]
    /\ StoreUnchanged
    /\ UNCHANGED <<custom_products, today, conns>>

\* the get_daily_summary tool: the summary storage returns, and the reply
\* (the "no entries" message when the entry list is empty)
daily_summary(target_date) ==
    LET summary == get_daily_summary(target_date) IN
    /\ last_op' = [op |-> "get_daily_summary", target_date |-> target_date]
    /\ calls' = <<Call("storage.get_daily_summary", target_date, summary)>>
    /\ ret' = IF summary.entries = <<>>
              THEN [tag |-> "NoEntries", date |-> target_date]
              ELSE [tag |-> "Formatted", summary |-> summary]
    /\ StoreUnchanged
    /\ UNCHANGED <<custom_products, today, conns>>

\* a row put into food_log by another writer of the database file, with
\* nutrient columns left NULL as the schema allows
insert_foreign_row(product_name, meal_type, calories_kcal) ==
    /\ last_op' = [op |-> "foreign_insert"]
    /\ food_log' = food_log \cup
           {[id |-> lastrowid, date |-> today, meal_type |-> meal_type,
             product_name |-> product_name, barcode |-> NULL,
             amount_g |-> 100,
             calories_kcal |-> calories_kcal, proteins_g |-> SqlNull,
             fats_g |-> SqlNull, carbs_g |-> SqlNull,
             sugars_g |-> SqlNull, fiber_g |-> SqlNull]}
    /\ sqlite_sequence' = lastrowid
    /\ issued' = issued
    /\ calls' = <<>>
    /\ ret' = None
    /\ UNCHANGED <<custom_products, today, conns>>

\* the get_weekly_summary tool
weekly_summary ==
    /\ last_op' = [op |-> "get_weekly_summary"]
    /\ calls' = <<>>
    /\ ret' = get_weekly_summary
    /\ StoreUnchanged
    /\ UNCHANGED <<custom_products, today, conns>>

\* midnight passes: date.today() moves on by one day
next_day ==
    /\ today' = today + 1
    /\ last_op' = [op |-> "clock"]
    /\ calls' = <<>>
    /\ ret' = None
    /\ StoreUnchanged
    /\ UNCHANGED <<custom_products, conns>>

-----------------------------------------------------------------------------
(* storage.py with calls in flight together.  Each storage call opens its  *)
(* own connection (_get_db) and yields at every await, so the statements   *)
(* of different tasks interleave.  SQLite in its default rollback-journal  *)
(* mode keeps a connection's changes to itself until COMMIT, lets one      *)
(* connection at a time hold uncommitted changes (RESERVED lock), and      *)
(* commits only while no other connection is inside a SELECT (SHARED       *)
(* lock); a statement that cannot get its lock within the busy timeout     *)
(* raises "database is locked".  conns is the bag of calls in flight, each *)
(* with the statement it has reached and the values it holds.              *)

MaxTasks == 2

InFlight == BagToSet(conns)

\* the connection has executed its INSERT or DELETE and not yet committed
HoldsReserved(c) == c.pc \in {"log_food:executed", "delete_entry:executed"}

\* the connection's SELECT has produced rows that are not yet all fetched
HoldsShared(c) == c.pc = "get_entries_for_date:executed" /\ c.rows # <<>>

\* a table with the uncommitted change of connection c applied to it
Applied(table, c) ==
    IF c.pc = "log_food:executed" THEN table \cup {c.row}
    ELSE IF c.pc = "delete_entry:executed"
         THEN {r \in table : r.id # c.entry_id}
         ELSE table

\* A statement that reads the uncommitted change of whichever connection
\* holds one.
ReadUncommitted(c) ==
    LET w == {q \in InFlight : HoldsReserved(q)} IN
    IF w = {} THEN food_log ELSE Applied(food_log, CHOOSE q \in w : TRUE)

\* what a statement on connection c reads: the committed table with that
\* connection's own uncommitted change
View(c) == Applied(food_log, c)

\* the calls in flight that are among cs, each as often as it is in flight
SubBagOf(cs) == [c \in cs |-> CopiesIn(c, conns)]

\* a call starts, moves on to its next statement, returns
Started(c) == conns (+) SetToBag({c})
Moved(c, d) == (conns (-) SetToBag({c})) (+) SetToBag({d})
Ended(c) == conns (-) SetToBag({c})

\* every read that has started and not yet run its SELECT notes the
\* committed rows of its date as they are after a commit (history, kept
\* with the read)
Noted(B, table) ==
    LET note(c) ==
            IF c.pc = "get_entries_for_date:open"
            THEN [c EXCEPT !.since_start =
                      @ \cup {{r \in table : r.date = c.target_date}}]
            ELSE c
    IN  BagOfAll(note, B)

HandlersUnchanged == UNCHANGED <<custom_products, today, last_op, calls, ret>>

\* storage.log_food(entry) is called: db = await _get_db()
call_log_food(entry) ==
    /\ BagCardinality(conns) < MaxTasks
    /\ conns' = Started([pc |-> "log_food:open", entry |-> entry])
    /\ StoreUnchanged
    /\ HandlersUnchanged

\* cursor = await db.execute("INSERT ...")
execute_insert(c) ==
    /\ c.pc = "log_food:open"
    /\ \A q \in InFlight : ~HoldsReserved(q)
    /\ conns' = Moved(c,
           [pc |-> "log_food:executed",
            row |-> [c.entry EXCEPT
                        !.id = AutoincrementRowid(View(c), sqlite_sequence)]])
    /\ StoreUnchanged
    /\ HandlersUnchanged

\* await db.commit(); return cursor.lastrowid; finally: await db.close()
commit_insert(c) ==
    /\ c.pc = "log_food:executed"
    /\ \A q \in InFlight : ~HoldsShared(q)
    /\ food_log' = Applied(food_log, c)
    /\ sqlite_sequence' = c.row.id
    /\ issued' = issued \cup {c.row.id}
    /\ conns' = Noted(Ended(c), food_log')
    /\ HandlersUnchanged

\* storage.delete_entry(entry_id) is called: db = await _get_db()
call_delete_entry(entry_id) ==
    /\ BagCardinality(conns) < MaxTasks
    /\ conns' = Started([pc |-> "delete_entry:open", entry_id |-> entry_id])
    /\ StoreUnchanged
    /\ HandlersUnchanged

\* cursor = await db.execute("DELETE FROM food_log WHERE id = ?")
execute_delete(c) ==
    /\ c.pc = "delete_entry:open"
    /\ \A q \in InFlight : ~HoldsReserved(q)
    /\ conns' = Moved(c,
           [pc |-> "delete_entry:executed", entry_id |-> c.entry_id,
            rowcount |-> Cardinality({r \in View(c) : r.id = c.entry_id})])
    /\ StoreUnchanged
    /\ HandlersUnchanged

\* await db.commit(); return cursor.rowcount > 0; finally: await db.close()
commit_delete(c) ==
    /\ c.pc = "delete_entry:executed"
    /\ \A q \in InFlight : ~HoldsShared(q)
    /\ food_log' = Applied(food_log, c)
    /\ conns' = Noted(Ended(c), food_log')
    /\ UNCHANGED <<sqlite_sequence, issued>>
    /\ HandlersUnchanged

\* a write that waited out the busy timeout raises; finally: db.close()
\* discards what the connection had not committed
database_locked(c) ==
    /\ \/ /\ c.pc \in {"log_food:open", "delete_entry:open"}
          /\ \E q \in InFlight : HoldsReserved(q)
       \/ /\ HoldsReserved(c)
          /\ \E q \in InFlight : HoldsShared(q)
    /\ conns' = Ended(c)
    /\ StoreUnchanged
    /\ HandlersUnchanged

\* storage.get_entries_for_date(target_date) is called: db = await _get_db()
call_get_entries_for_date(target_date) ==
    /\ BagCardinality(conns) < MaxTasks
    /\ conns' = Started(
           [pc |-> "get_entries_for_date:open", target_date |-> target_date,
            since_start |-> {{r \in food_log : r.date = target_date}}])
    /\ StoreUnchanged
    /\ HandlersUnchanged

\* cursor = await db.execute("SELECT ... ORDER BY meal_type, id"): the
\* statement is stepped, which sorts every matching row
execute_select(c) ==
    /\ c.pc = "get_entries_for_date:open"
    /\ conns' = Moved(c,
           [pc |-> "get_entries_for_date:executed",
            target_date |-> c.target_date,
            since_start |-> c.since_start,
            rows |-> SelectByDate(View(c), c.target_date)])
    /\ StoreUnchanged
    /\ HandlersUnchanged

\* rows = await cursor.fetchall(); the list of FoodEntry; db.close()
fetchall(c) ==
    /\ c.pc = "get_entries_for_date:executed"
    /\ conns' = Moved(c,
           [pc |-> "get_entries_for_date:returned",
            target_date |-> c.target_date,
            since_start |-> c.since_start,
            entries |-> Entries(c.rows)])
    /\ StoreUnchanged
    /\ HandlersUnchanged

\* the caller has taken the list; its task is free for another call
read_returned(c) ==
    /\ c.pc = "get_entries_for_date:returned"
    /\ conns' = Ended(c)
    /\ StoreUnchanged
    /\ HandlersUnchanged

Init ==
    /\ food_log = {}
    /\ sqlite_sequence = 0
    /\ custom_products = {}
    /\ today = 0
    /\ issued = {}
    /\ last_op = [op |-> "start"]
    /\ calls = <<>>
    /\ ret = None
    /\ conns = EmptyBag

-----------------------------------------------------------------------------
(* The environment: what callers type and what the remote catalogue answers *)

name_ser == <<115, 101, 114>>                 \* "ser"
name_mleko == <<77, 108, 101, 107, 111>>      \* "Mleko"

\* a product payload with every nutriment present
itemA ==
    [valid |-> TRUE, code |-> id_8digits,
     product_name_pl |-> EmptyStr, product_name |-> name_ser,
     nutriments |-> [k \in NutrimentAliases |->
                        CASE k = "energy-kcal_100g" -> 250
                          [] k = "proteins_100g" -> 7
                          [] k = "fat_100g" -> 3
                          [] k = "carbohydrates_100g" -> 40
                          [] k = "sugars_100g" -> 5
                          [] OTHER -> 1]]

\* a product payload with only energy and proteins
itemB ==
    [valid |-> TRUE, code |-> EmptyStr,
     product_name_pl |-> name_mleko, product_name |-> name_ser,
     nutriments |-> [k \in {"energy-kcal_100g", "proteins_100g"} |->
                        IF k = "energy-kcal_100g" THEN 100 ELSE 3]]

\* a product payload without nutriments
itemZero ==
    [valid |-> TRUE, code |-> EmptyStr,
     product_name_pl |-> EmptyStr, product_name |-> mleko,
     nutriments |-> [k \in {} |-> 0]]

\* a payload that fails validation
itemBad == [valid |-> FALSE]

Timeout == [kind |-> "timeout"]
Http(status_code) == [kind |-> "http", status_code |-> status_code]

BarcodeResponses ==
    {Timeout, Http(404), Http(500),
     [kind |-> "http", status_code |-> 200, status |-> 0],
     [kind |-> "http", status_code |-> 200, status |-> 1, product |-> itemA],
     [kind |-> "http", status_code |-> 200, status |-> 1, product |-> itemBad]}

SearchOk(items) == [kind |-> "http", status_code |-> 200, products |-> items]

SearchResponses ==
    {Timeout, Http(404), Http(500),
     SearchOk(<<>>), SearchOk(<<itemBad>>), SearchOk(<<itemBad, itemB, itemA>>)}

MaxIds == 1          \* inserts per run of Spec and SpecEntry
MaxCustom == 2       \* custom products per run of Spec
MaxDay == 1          \* midnights per run of SpecStore
StoreMaxIds == 2     \* inserts per run of SpecStore
WeekMaxIds == 2      \* inserts per run of SpecWeek
WeekMaxDay == 7      \* midnights per run of SpecWeek
DailyMaxIds == 3     \* inserted rows per run of SpecDaily
ConcMaxIds == 2      \* committed inserts before the last ones start, SpecConcurrent

-----------------------------------------------------------------------------
(* Spec: the resolution cascade against every remote outcome *)

ResolveLogFood ==
    /\ sqlite_sequence < MaxIds
    /\ \E b \in {id_0123, id_7digits, id_8digits, mleko, salad, id_1},
          bar \in BarcodeResponses, sr \in SearchResponses :
          log_food(b, 100, snack, bar, sr)

ResolveAddCustom ==
    /\ Cardinality(custom_products) < MaxCustom
    /\ \E name \in {salad, id_8digits} : add_custom_product(name, 120, 9)

ResolveDelete == \E id \in 1..(MaxIds + 1) : delete_food_entry(id)

ResolveRead == read_entries(today)

Next ==
    \/ ResolveLogFood
    \/ ResolveAddCustom
    \/ ResolveDelete
    \/ ResolveRead
    \/ weekly_summary

Spec == Init /\ [][Next]_vars

-----------------------------------------------------------------------------
(* SpecEntry: amounts and meal types as callers type them *)

EntryLogFood ==
    /\ sqlite_sequence < MaxIds
    /\ \E b \in {id_8digits, mleko},
          a \in {-100, 0, 50, 150},
          m \in {breakfast, Lunch_Title, dinner, SNACK_UPPER, brunch, EmptyStr},
          sr \in {SearchOk(<<>>), SearchOk(<<itemB>>)} :
          log_food(b, a, m, [kind |-> "http", status_code |-> 200,
                             status |-> 1, product |-> itemA], sr)

EntryDelete == \E id \in 1..(MaxIds + 1) : delete_food_entry(id)

EntryRead == read_entries(today)

NextEntry ==
    \/ EntryLogFood
    \/ EntryDelete
    \/ EntryRead
    \/ weekly_summary

SpecEntry == Init /\ [][NextEntry]_vars

-----------------------------------------------------------------------------
(* SpecStore: the food log under inserts, deletes and reads *)

StoreLogFood ==
    /\ sqlite_sequence < StoreMaxIds
    /\ \E m \in {breakfast, lunch, dinner, snack} :
          log_food(mleko, 100, m, Timeout, SearchOk(<<itemB>>))

StoreDelete == \E id \in 1..(StoreMaxIds + 1) : delete_food_entry(id)

StoreRead == \E d \in 0..MaxDay : read_entries(d)

StoreNextDay == today < MaxDay /\ next_day

NextStore ==
    \/ StoreLogFood
    \/ StoreDelete
    \/ StoreRead
    \/ StoreNextDay

SpecStore == Init /\ [][NextStore]_vars

-----------------------------------------------------------------------------
(* SpecWeek: a week and more of logging, then the weekly summary *)

WeekLogFood ==
    /\ sqlite_sequence < WeekMaxIds
    /\ \E a \in {100, 150}, sr \in {SearchOk(<<itemB>>), SearchOk(<<itemZero>>)} :
          log_food(mleko, a, snack, Timeout, sr)

WeekDelete == \E id \in 1..WeekMaxIds : delete_food_entry(id)

WeekNextDay == today < WeekMaxDay /\ next_day

NextWeek ==
    \/ WeekLogFood
    \/ WeekDelete
    \/ weekly_summary
    \/ WeekNextDay

SpecWeek == Init /\ [][NextWeek]_vars

-----------------------------------------------------------------------------
(* SpecDaily: rows logged, written by another client and deleted over two *)
(* days, and the daily summary of either day                               *)

DailyLogFood ==
    /\ sqlite_sequence < DailyMaxIds
    /\ \E a \in {50, 150} :
          log_food(mleko, a, snack, Timeout, SearchOk(<<itemA>>))

DailyForeignRow ==
    /\ sqlite_sequence < DailyMaxIds
    /\ \E c \in {SqlNull, 0} : insert_foreign_row(name_ser, breakfast, c)

DailyDelete == \E id \in 1..DailyMaxIds : delete_food_entry(id)

DailySummaryOf == \E d \in 0..MaxDay : daily_summary(d)

DailyNextDay == today < MaxDay /\ next_day

NextDaily ==
    \/ DailyLogFood
    \/ DailyForeignRow
    \/ DailyDelete
    \/ DailySummaryOf
    \/ DailyNextDay

SpecDaily == Init /\ [][NextDaily]_vars

-----------------------------------------------------------------------------
(* SpecConcurrent: up to MaxTasks storage calls in flight, their           *)
(* statements interleaved in every order                                   *)

\* the entries handed to storage.log_food: one built today, one built
\* before the last midnight
ConcEntries ==
    {FoodEntry(from_api(itemA), 50, snack),
     [FoodEntry(from_api(itemB), 150, breakfast) EXCEPT !.date = today - 1]}

InLogFood == {c \in InFlight : c.pc \in {"log_food:open", "log_food:executed"}}

ConcCallLogFood ==
    /\ sqlite_sequence + BagCardinality(SubBagOf(InLogFood)) < ConcMaxIds
    /\ \E e \in ConcEntries : call_log_food(e)

ConcExecuteInsert == \E c \in InFlight : execute_insert(c)

ConcCommitInsert == \E c \in InFlight : commit_insert(c)

ConcCallDelete == \E id \in 1..ConcMaxIds : call_delete_entry(id)

ConcExecuteDelete == \E c \in InFlight : execute_delete(c)

ConcCommitDelete == \E c \in InFlight : commit_delete(c)

ConcLocked == \E c \in InFlight : database_locked(c)

ConcCallRead == \E d \in {today - 1, today} : call_get_entries_for_date(d)

ConcExecuteSelect == \E c \in InFlight : execute_select(c)

ConcFetchall == \E c \in InFlight : fetchall(c)

ConcReadReturned == \E c \in InFlight : read_returned(c)

NextConcurrent ==
    \/ ConcCallLogFood
    \/ ConcExecuteInsert
    \/ ConcCommitInsert
    \/ ConcCallDelete
    \/ ConcExecuteDelete
    \/ ConcCommitDelete
    \/ ConcLocked
    \/ ConcCallRead
    \/ ConcExecuteSelect
    \/ ConcFetchall
    \/ ConcReadReturned

SpecConcurrent == Init /\ [][NextConcurrent]_vars

-----------------------------------------------------------------------------
(* Properties *)

IsLogFood == last_op.op = "log_food"

\* the positions in the call trace at which fn was called
CallsTo(fn) == {i \in 1..Len(calls) : calls[i].fn = fn}

\* the local lookup of the last log_food call found a custom product
LocalHit ==
    /\ IsLogFood
    /\ CallsTo("find_custom_product") # {}
    /\ calls[1].fn = "find_custom_product" /\ calls[1].out = "custom"

\* the local lookup of the last log_food call found nothing
LocalMiss ==
    /\ IsLogFood
    /\ CallsTo("find_custom_product") # {}
    /\ calls[1].fn = "find_custom_product" /\ calls[1].out = "none"

\* C1: when the local custom-product lookup of a log_food call returns a
\* match, that call invokes neither client.get_product nor
\* client.search_products, and the entry it logs is built from the local
\* product the lookup returned (its name, no barcode, its per-100g values
\* scaled by the amount).
C1_LocalMatchShortCircuits ==
    LocalHit =>
        /\ CallsTo("get_product") = {}
        /\ CallsTo("search_products") = {}
        /\ ret.tag = "Saved"
        /\ LET c == calls[1].found IN
              /\ c \in custom_products
              /\ ret.entry.product_name = c.name
              /\ ret.entry.barcode = NULL
              /\ ret.entry.calories_kcal * 100
                     = c.calories_kcal_100g * last_op.amount_g * UnitsPerOne
              /\ ret.entry.proteins_g * 100
                     = c.proteins_g_100g * last_op.amount_g * UnitsPerOne
              /\ ret.entry.fats_g * 100
                     = c.fats_g_100g * last_op.amount_g * UnitsPerOne
              /\ ret.entry.carbs_g * 100
                     = c.carbs_g_100g * last_op.amount_g * UnitsPerOne
              /\ ret.entry.sugars_g * 100
                     = c.sugars_g_100g * last_op.amount_g * UnitsPerOne
              /\ ret.entry.fiber_g * 100
                     = c.fiber_g_100g * last_op.amount_g * UnitsPerOne
              /\ [ret.entry EXCEPT !.id = ret.entry_id] \in food_log

\* C1 witness: an identifier that looks like a barcode (8 digits) was found
\* in the local catalogue and logged.
C1_Witness ==
    /\ LocalHit
    /\ last_op.barcode_or_name = id_8digits
    /\ ret.tag = "Saved"

\* C2: for an identifier with no local match, client.get_product is called
\* iff the identifier is all digits and at least 8 long, and then before any
\* search; client.search_products (page_size 1) is called iff get_product
\* was not called or returned nothing; "0123" goes to search with no barcode
\* lookup.
C2_BarcodeHeuristic ==
    LocalMiss =>
        LET b == last_op.barcode_or_name
            allDigits == Len(b) > 0 /\ \A i \in 1..Len(b) : b[i] \in 48..57
            bar == CallsTo("get_product")
            sr == CallsTo("search_products")
        IN  /\ (bar # {}) <=> (allDigits /\ Len(b) >= 8)
            /\ Cardinality(bar) <= 1 /\ Cardinality(sr) <= 1
            /\ \A i \in bar, j \in sr : i < j
            /\ (sr # {}) <=> (bar = {} \/ \E i \in bar : calls[i].out = "none")
            /\ \A j \in sr : calls[j].page_size = 1 /\ calls[j].arg = b
            /\ \A i \in bar : calls[i].arg = b
            /\ (b = id_0123 => bar = {} /\ sr # {})

\* C2 witness: an 8-digit identifier with no local match, looked up by
\* barcode first, not found there, then searched.
C2_Witness ==
    /\ LocalMiss
    /\ last_op.barcode_or_name = id_8digits
    /\ Len(calls) >= 3
    /\ calls[2].fn = "get_product" /\ calls[2].out = "none"
    /\ calls[3].fn = "search_products"

\* the exchange failed: a timeout, or a status that is not 2xx
TransportFailure(resp) ==
    resp.kind = "timeout" \/ ~(resp.status_code \in 200..299)

\* the exchange is the barcode lookup's explicit "not found"
BarcodeNotFound(resp) ==
    /\ resp.kind = "http"
    /\ \/ resp.status_code = 404
       \/ (resp.status_code \in 200..299 /\ resp.status = 0)

\* the exchange is a search that answered with no usable result
SearchEmpty(resp) ==
    /\ resp.kind = "http"
    /\ resp.status_code \in 200..299
    /\ \A i \in 1..Len(resp.products) : ~resp.products[i].valid

\* C9: a failed remote call (timeout, or a non-2xx status other than the
\* barcode lookup's 404) ends log_food with a raised failure: no later call
\* is made, the result is neither "not found" nor a saved entry, and the
\* food log is unchanged.  The cascade treats a remote call as a miss only
\* on an explicit not-found answer: 404 or status 0 from the barcode lookup,
\* an empty result list from the search.
C9_RemoteFailurePropagates ==
    /\ [](IsLogFood =>
            /\ \A i \in CallsTo("get_product") :
                  /\ (TransportFailure(calls[i].resp)
                        /\ ~BarcodeNotFound(calls[i].resp))
                     => (i = Len(calls) /\ ret.tag = "Raised")
                  /\ (i + 1) \in CallsTo("search_products")
                     => BarcodeNotFound(calls[i].resp)
            /\ \A i \in CallsTo("search_products") :
                  /\ TransportFailure(calls[i].resp)
                     => (i = Len(calls) /\ ret.tag = "Raised")
                  /\ ret.tag = "NotFound" => SearchEmpty(calls[i].resp)
            /\ ret.tag = "Raised" => CallsTo("storage.log_food") = {})
    /\ [][ret'.tag = "Raised" => food_log' = food_log]_vars

\* C9 witness: the barcode lookup of a log_food call timed out.
C9_Witness ==
    /\ IsLogFood
    /\ ret.tag = "Raised"
    /\ Len(calls) = 2
    /\ calls[2].fn = "get_product" /\ calls[2].resp = Timeout

\* C3: log_food with amount_g <= 0 is rejected and inserts no row, so every
\* row of the food log has amount_g > 0.
C3_NonPositiveAmountRejected ==
    /\ (IsLogFood /\ last_op.amount_g <= 0) => ret.tag # "Saved"
    /\ \A r \in food_log : r.amount_g > 0

\* the rank of a meal type in the fixed order breakfast, lunch, dinner,
\* snack; any other meal type ranks after the four
CanonicalRank(m) ==
    IF m = breakfast THEN 0
    ELSE IF m = lunch THEN 1
    ELSE IF m = dinner THEN 2
    ELSE IF m = snack THEN 3
    ELSE 4

\* C4: get_entries_for_date(date) returns exactly the rows of that date,
\* ordered by (canonical meal rank, id): breakfast < lunch < dinner < snack,
\* other meal types last, in id order within a rank.
C4_CanonicalMealOrder ==
    last_op.op = "get_entries_for_date" =>
        LET e == ret.entries IN
        /\ {e[i] : i \in 1..Len(e)} = {r \in food_log : r.date = last_op.target_date}
        /\ Len(e) = Cardinality({r \in food_log : r.date = last_op.target_date})
        /\ \A i, j \in 1..Len(e) :
              i < j =>
                \/ CanonicalRank(e[i].meal_type) < CanonicalRank(e[j].meal_type)
                \/ /\ CanonicalRank(e[i].meal_type) = CanonicalRank(e[j].meal_type)
                   /\ e[i].id < e[j].id

\* C5: every insert returns an id that is not 0, greater than every id an
\* insert returned before, and the id of no row that exists or ever existed;
\* the insert adds one row and leaves the existing rows as they were.
C5_FreshIncreasingIds ==
    /\ [](\A r \in food_log : r.id \in issued)
    /\ [][ret'.tag = "Saved" =>
            LET id == ret'.entry_id IN
            /\ id # 0
            /\ id \notin issued
            /\ \A i \in issued : id > i
            /\ \A r \in food_log : r.id # id
            /\ food_log \subseteq food_log'
            /\ Cardinality(food_log') = Cardinality(food_log) + 1
            /\ \E r \in food_log' \ food_log : r.id = id
            /\ issued' = issued \cup {id}]_vars

\* C5 witness: an insert that came after the row with the highest id had
\* been deleted.
C5_Witness ==
    /\ IsLogFood
    /\ ret.tag = "Saved"
    /\ ret.entry_id > 1
    /\ (ret.entry_id - 1) \in issued
    /\ \A r \in food_log : r.id # ret.entry_id - 1

\* C6: for an amount a > 0 and the resolved product's per-100g profile p,
\* the entry log_food builds and stores has amount_g = a and each of its six
\* totals equal to the field of p times a / 100, unrounded.
C6_ExactScaling ==
    (IsLogFood /\ ret.tag = "Saved" /\ last_op.amount_g > 0) =>
        LET a == last_op.amount_g
            p == ret.product.nutriments
            e == ret.entry
        IN  /\ e.amount_g = a
            /\ e.calories_kcal * 100 = p.calories_kcal * a * UnitsPerOne
            /\ e.proteins_g * 100 = p.proteins_g * a * UnitsPerOne
            /\ e.fats_g * 100 = p.fats_g * a * UnitsPerOne
            /\ e.carbs_g * 100 = p.carbs_g * a * UnitsPerOne
            /\ e.sugars_g * 100 = p.sugars_g * a * UnitsPerOne
            /\ e.fiber_g * 100 = p.fiber_g * a * UnitsPerOne
            /\ [e EXCEPT !.id = ret.entry_id] \in food_log

\* C6 witness: 50 g of a product with 7 g of protein per 100 g, logged as
\* 3.5 g of protein.
C6_Witness ==
    /\ IsLogFood
    /\ ret.tag = "Saved"
    /\ last_op.amount_g = 50
    /\ ret.product.nutriments.proteins_g = 7
    /\ ret.entry.proteins_g = 350

\* C10: log_food takes a meal type in any letter case whose lowercase form
\* is breakfast, lunch, dinner or snack, and stores the lowercase form; any
\* other meal type is rejected before any lookup and without inserting a
\* row; every row of the food log has one of the four meal types.
C10_MealTypeValidated ==
    /\ [](IsLogFood =>
            IF lower(last_op.meal_type) \in {breakfast, lunch, dinner, snack}
            THEN /\ ret.tag # "InvalidMealType"
                 /\ ret.tag = "Saved" =>
                       /\ ret.entry.meal_type = lower(last_op.meal_type)
                       /\ \E r \in food_log :
                             /\ r.id = ret.entry_id
                             /\ r.meal_type = lower(last_op.meal_type)
            ELSE /\ ret.tag = "InvalidMealType"
                 /\ calls = <<>>)
    /\ [](\A r \in food_log : r.meal_type \in {breakfast, lunch, dinner, snack})
    /\ [][ret'.tag = "InvalidMealType" => food_log' = food_log]_vars

\* C10 witness: "Lunch" was accepted and stored as "lunch".
C10_Witness ==
    /\ IsLogFood
    /\ last_op.meal_type = Lunch_Title
    /\ ret.tag = "Saved"
    /\ \E r \in food_log : r.id = ret.entry_id /\ r.meal_type = lunch

\* the rows of the food log dated from `today - first` back to `today - last`
RowsInDays(first, last) ==
    {r \in food_log : today - r.date \in first..last}

\* the sum of one nutrient total over a set of rows
RowTotal(rows, field) == FnSum([r \in rows |-> r[field]], rows)

\* the number of distinct dates among a set of rows
DayCount(rows) == Cardinality({r.date : r \in rows})

\* the fraction f equals total / n
IsQuotient(f, total, n) == f.den > 0 /\ f.num * n = total * f.den

\* C7: get_weekly_summary covers today .. today-6; with no entry on any of
\* these dates it reports no data; otherwise each of the six averages is the
\* sum of that total over the window divided by the number of dates that
\* have at least one entry (a date whose entries total zero counts; a date
\* without entries does not).
C7_AverageOverActiveDays ==
    last_op.op = "get_weekly_summary" =>
        LET week == RowsInDays(0, 6)
            n == DayCount(week)
        IN  IF week = {} THEN ret.tag = "NoData"
            ELSE /\ ret.tag = "Weekly"
                 /\ ret.n = n
                 /\ IsQuotient(ret.avg_cal, RowTotal(week, "calories_kcal"), n)
                 /\ IsQuotient(ret.avg_prot, RowTotal(week, "proteins_g"), n)
                 /\ IsQuotient(ret.avg_fat, RowTotal(week, "fats_g"), n)
                 /\ IsQuotient(ret.avg_carb, RowTotal(week, "carbs_g"), n)
                 /\ IsQuotient(ret.avg_sugar, RowTotal(week, "sugars_g"), n)
                 /\ IsQuotient(ret.avg_fiber, RowTotal(week, "fiber_g"), n)

\* C7 witness: a week with two active days, one of which totals zero
\* calories, averaged over those two days.
C7_Witness ==
    /\ last_op.op = "get_weekly_summary"
    /\ ret.tag = "Weekly"
    /\ ret.n = 2
    /\ ret.avg_cal.num > 0
    /\ \E r \in RowsInDays(0, 6) :
          \A o \in RowsInDays(0, 6) : o.date = r.date => o.calories_kcal = 0

\* C8: the weekly summary carries a trend iff both the recent days (today ..
\* today-2) and the earlier days (today-3 .. today-6) have an active day;
\* with diff = mean calories of the active recent days minus mean calories
\* of the active earlier days, the trend is stable iff |diff| < 50 kcal,
\* else an increase iff diff > 0 and a decrease iff diff < 0, and it carries
\* the signed diff.
C8_TrendClassification ==
    (last_op.op = "get_weekly_summary" /\ ret.tag = "Weekly") =>
        LET recent == RowsInDays(0, 2)
            earlier == RowsInDays(3, 6)
        IN  IF recent = {} \/ earlier = {} THEN ret.trend = NoTrend
            ELSE LET nr == DayCount(recent)
                     ne == DayCount(earlier)
                     \* diff = d / (nr * ne), in 1/100 kcal
                     d == RowTotal(recent, "calories_kcal") * ne
                            - RowTotal(earlier, "calories_kcal") * nr
                     stable == d < 50 * 100 * nr * ne /\ -d < 50 * 100 * nr * ne
                 IN  /\ ret.trend # NoTrend
                     /\ IsQuotient(ret.trend.diff, d, nr * ne)
                     /\ (ret.trend.kind = "stabilne") <=> stable
                     /\ (ret.trend.kind = "wzrost") <=> (~stable /\ d > 0)
                     /\ (ret.trend.kind = "spadek") <=> (~stable /\ d < 0)

\* C8 witness: the recent days average exactly 50 kcal more than the earlier
\* days, and the trend is an increase.
C8_Witness ==
    /\ last_op.op = "get_weekly_summary"
    /\ ret.tag = "Weekly"
    /\ ret.trend # NoTrend
    /\ ret.trend.kind = "wzrost"
    /\ ret.trend.diff.num = 50 * 100 * ret.trend.diff.den

-----------------------------------------------------------------------------
(* The daily summary against the stored rows *)

\* the rows now stored with date d
DateRows(d) == {r \in food_log : r.date = d}

RECURSIVE StoredSum(_, _)
\* the sum of one column over a set of rows, a NULL counting as 0
StoredSum(rows, field) ==
    IF rows = {} THEN 0
    ELSE LET r == CHOOSE x \in rows : TRUE
         IN  (IF r[field] = SqlNull THEN 0 ELSE r[field])
                 + StoredSum(rows \ {r}, field)

IsDailySummary == last_op.op = "get_daily_summary"

\* C11: after any inserts and deletes, the summary storage returns for a date
\* has each of its six totals equal to the sum of that column over exactly
\* the rows now stored with that date (a NULL counting as 0), its entry list
\* is that of get_entries_for_date(date) and holds one entry per such row;
\* for a date without rows it is a summary of zeros with an empty list, not
\* an error.
C11_DailySummaryMatchesRows ==
    IsDailySummary =>
        LET d == last_op.target_date
            s == calls[1].out
            rows == DateRows(d)
        IN  /\ s.date = d
            /\ s.total_calories = StoredSum(rows, "calories_kcal")
            /\ s.total_proteins = StoredSum(rows, "proteins_g")
            /\ s.total_fats = StoredSum(rows, "fats_g")
            /\ s.total_carbs = StoredSum(rows, "carbs_g")
            /\ s.total_sugars = StoredSum(rows, "sugars_g")
            /\ s.total_fiber = StoredSum(rows, "fiber_g")
            /\ s.entries = get_entries_for_date(d)
            /\ Len(s.entries) = Cardinality(rows)
            /\ {s.entries[i].id : i \in 1..Len(s.entries)} = {r.id : r \in rows}
            /\ rows = {} =>
                  /\ s.entries = <<>>
                  /\ s.total_calories = 0 /\ s.total_proteins = 0
                  /\ s.total_fats = 0 /\ s.total_carbs = 0
                  /\ s.total_sugars = 0 /\ s.total_fiber = 0

\* a summary of a day that holds a row with NULL calories next to a logged
\* row with calories, taken after another row of the log was deleted
C11_Witness ==
    /\ IsDailySummary
    /\ \E r \in DateRows(last_op.target_date) : r.calories_kcal = SqlNull
    /\ \E r \in DateRows(last_op.target_date) : r.calories_kcal > 0
    /\ \E id \in 1..sqlite_sequence : \A r \in food_log : r.id # id
    /\ calls[1].out.total_calories > 0

\* a summary asked for a day that has no rows while another day has some
C11_WitnessEmptyDay ==
    /\ IsDailySummary
    /\ DateRows(last_op.target_date) = {}
    /\ food_log # {}
    /\ calls[1].out.entries = <<>>

-----------------------------------------------------------------------------
(* Deleting by id *)

IsDelete == last_op.op = "delete_food_entry"

\* C12: delete_entry(id) returns true and removes exactly the row with that
\* id when there is one, every other row staying as it was; when no row has
\* the id it returns false, raises nothing and leaves every row as it was.
\* After either outcome no row has the id, so the same delete again is a
\* no-op that returns false.
C12_DeleteExactlyThatRow ==
    /\ [](IsDelete => \A r \in food_log : r.id # last_op.entry_id)
    /\ [][last_op'.op = "delete_food_entry" =>
            LET hit == {r \in food_log : r.id = last_op'.entry_id} IN
            /\ Cardinality(hit) <= 1
            /\ food_log' = food_log \ hit
            /\ sqlite_sequence' = sqlite_sequence
            /\ calls'[1].fn = "storage.delete_entry"
            /\ calls'[1].out = (IF hit # {} THEN "true" ELSE "false")
            /\ ret'.tag = (IF hit # {} THEN "Deleted" ELSE "NoSuchEntry")]_vars

\* a delete that removed its row and left another row in the table
C12_Witness ==
    /\ IsDelete
    /\ ret.tag = "Deleted"
    /\ last_op.entry_id \in issued
    /\ food_log # {}

\* the delete of an id whose row an earlier delete has already removed
C12_WitnessRepeated ==
    /\ IsDelete
    /\ ret.tag = "NoSuchEntry"
    /\ calls[1].out = "false"
    /\ last_op.entry_id \in issued
    /\ food_log # {}

-----------------------------------------------------------------------------
(* Reads among concurrent writes *)

HasReturned(c) == c.pc = "get_entries_for_date:returned"

\* the entries of a returned read, as a set
Got(c) == {c.entries[i] : i \in 1..Len(c.entries)}

\* C13: under every interleaving of log_food inserts, delete_entry calls and
\* get_entries_for_date reads, a read returns, each once, exactly the rows of
\* its date that were committed at one moment after its start (a moment
\* between its start and its SELECT), and each returned row is, field for
\* field, an entry one committed insert was given: never part of an insert,
\* never a row whose delete had committed before the read started.
C13_ReadSeesOneCommittedState ==
    \A c \in InFlight :
        HasReturned(c) =>
            /\ Len(c.entries) = Cardinality(Got(c))
            /\ \E S \in c.since_start : Got(c) = {RowToEntry(r) : r \in S}
            /\ \A e \in Got(c) :
                  /\ e.date = c.target_date
                  /\ e.id \in issued
                  /\ \E x \in ConcEntries :
                        [e EXCEPT !.id = x.id, !.date = x.date] = x

\* a read that returned rows after a write had committed between its start
\* and its SELECT, where a row of its date committed in that time is gone
\* from the table again and another insert is executed but not committed
C13_Witness ==
    \E c \in InFlight :
        /\ HasReturned(c)
        /\ Got(c) # {}
        /\ Cardinality(c.since_start) >= 2
        /\ \E S \in c.since_start : \E r \in S : r \notin food_log
        /\ \E q \in InFlight : q.pc = "log_food:executed"

====
